---------------------------- MODULE Spec2Model ----------------------------
(***************************************************************************)
(* A model of FTSQuery.transform (src/ftsQuery.js): the scanner            *)
(* (src/parsingHelper.js), the recursive-descent parser parseNode, the     *)
(* normalizer fixUpExpressionTree and the renderers toString               *)
(* (src/internalNode.js, src/terminalNode.js).                             *)
(*                                                                         *)
(* A JavaScript string is a sequence of one-character strings.  A rendered *)
(* string is a sequence of pieces: the characters of the terms and the     *)
(* fixed fragments of the renderers' template literals.                    *)
(***************************************************************************)
EXTENDS Integers, Sequences, FiniteSets, TLC

VARIABLES stopWords,    \* this.stopWords of the FTSQuery instance
          vocabulary,   \* the kind of query the caller writes
          typed,        \* the number of fragments the caller has written
          query,        \* the argument of transform
          pc,           \* input, then the position in transform:
                        \* parseNode, fixUp, toString, done
          parser,       \* the ParsingHelper of the outermost parseNode call
          conjunction,  \* parseNode's local conjunction
          termExclude,  \* parseNode's local termExclude
          termForm,     \* parseNode's local termForm
          resetState,   \* parseNode's local resetState
          root,         \* parseNode's local root: the raw expression tree
          node,         \* transform's node after fixUpExpressionTree
          result        \* the string transform returns

vars == <<stopWords, vocabulary, typed, query, pc, parser, conjunction, termExclude, termForm,
          resetState, root, node, result>>

-----------------------------------------------------------------------------
(* Strings *)

Min(a, b) == IF a < b THEN a ELSE b

\* The characters String.prototype.trim removes, among those of the model.
TrimChars == {" ", "\t", "\n", "\r"}

RECURSIVE TrimLeft(_)
TrimLeft(s) == IF s # <<>> /\ Head(s) \in TrimChars THEN TrimLeft(Tail(s)) ELSE s

RECURSIVE TrimRight(_)
TrimRight(s) ==
    IF s # <<>> /\ s[Len(s)] \in TrimChars
    THEN TrimRight(SubSeq(s, 1, Len(s) - 1))
    ELSE s

trim(s) == TrimRight(TrimLeft(s))

\* Lower-casing of the letters the operator keywords are made of; the /i flag
\* of andRegex, orRegex, nearRegex and notRegex compares modulo case.
LowerChar(c) ==
    CASE c = "A" -> "a" [] c = "D" -> "d" [] c = "E" -> "e" [] c = "N" -> "n"
      [] c = "O" -> "o" [] c = "R" -> "r" [] c = "T" -> "t" [] OTHER -> c

Lower(s) == [i \in 1..Len(s) |-> LowerChar(s[i])]

andRegex(term)  == Lower(term) = <<"a", "n", "d">>
orRegex(term)   == Lower(term) = <<"o", "r">>
nearRegex(term) == Lower(term) = <<"n", "e", "a", "r">>
notRegex(term)  == Lower(term) = <<"n", "o", "t">>

\* The grave accent, which a TLA+ string cannot hold.
graveAccent == "GRAVE"

punctuation ==
    {"~", "\"", graveAccent, "!", "@", "#", "$", "%", "^", "&", "*", "(", ")", "-",
     "+", "=", "[", "]", "{", "}", "\\", "|", ";", ":", ",", ".", "<", ">",
     "?", "/"}

whitespace == {" ", "\t", "\n", "\r"}

-----------------------------------------------------------------------------
(* ParsingHelper: a record [Text, Index], Index counted from 0 *)

\* No one-character string equals it.
nullChar == "NUL"

ParsingHelper(text) == [Text |-> text, Index |-> 0]

EndOfText(p) == p.Index >= Len(p.Text)

peek(p) == IF p.Index < Len(p.Text) THEN p.Text[p.Index + 1] ELSE nullChar

extract(p, start, end) == SubSeq(p.Text, start + 1, end)

moveAhead(p) == [p EXCEPT !.Index = Min(p.Index + 1, Len(p.Text))]

RECURSIVE skipWhitespace(_)
skipWhitespace(p) ==
    IF peek(p) \in whitespace THEN skipWhitespace(moveAhead(p)) ELSE p

\* The predicate is given by the set of characters it rejects.
RECURSIVE skipWhile(_, _)
skipWhile(p, rejected) ==
    IF peek(p) \notin rejected /\ ~EndOfText(p)
    THEN skipWhile(moveAhead(p), rejected)
    ELSE p

\* Returns the parser after the scan; the string parsed is
\* extract(p, p.Index, parseWhile(p, rejected).Index).
parseWhile(p, rejected) == skipWhile(p, rejected)

-----------------------------------------------------------------------------
(* Expression nodes *)

\* null and undefined: an absent node.  An absent conjunction is "".
NULL == [type |-> "null"]

TerminalNode(term, form, exclude) ==
    [type |-> "Terminal", exclude |-> exclude, grouped |-> FALSE,
     term |-> term, termForm |-> form]

InternalNode(left, right, conj) ==
    [type |-> "Internal", exclude |-> FALSE, grouped |-> FALSE,
     leftChild |-> left, rightChild |-> right, conjunction |-> conj]

toUpperCase(conj) ==
    CASE conj = "And" -> "AND" [] conj = "Or" -> "OR" [] conj = "Near" -> "NEAR"

Terminal_toString(n) ==
    LET not == IF n.exclude THEN <<"NOT ">> ELSE <<>>
    IN CASE n.termForm = "Inflectional" ->
                not \o <<"FORMSOF(INFLECTIONAL, ">> \o n.term \o <<")">>
         [] n.termForm = "Thesaurus" ->
                not \o <<"FORMSOF(THESAURUS, ">> \o n.term \o <<")">>
         [] n.termForm = "Literal" ->
                not \o <<"\"">> \o n.term \o <<"\"">>
         [] OTHER -> <<>>

RECURSIVE toString(_)
Internal_toString(n) ==
    IF n.leftChild = NULL /\ n.rightChild = NULL THEN <<>>
    ELSE IF n.leftChild = NULL THEN toString(n.rightChild)
    ELSE IF n.rightChild = NULL THEN toString(n.leftChild)
    ELSE (IF n.grouped THEN <<"(">> ELSE <<>>)
         \o toString(n.leftChild) \o <<" ">>
         \o (IF n.conjunction # ""
             THEN <<toUpperCase(n.conjunction), " ">> ELSE <<>>)
         \o toString(n.rightChild)
         \o (IF n.grouped THEN <<")">> ELSE <<>>)

toString(n) ==
    IF n.type = "Internal" THEN Internal_toString(n) ELSE Terminal_toString(n)

\* What a caller sees of a TypeError thrown while rendering; no rendered string
\* equals it.
TypeError == <<"TypeError">>

\* The second definition of InternalNode.toString, which calls toString on
\* both children without testing them.
RECURSIVE toStringUnguarded(_)
Internal_toStringUnguarded(n) ==
    IF n.leftChild = NULL \/ n.rightChild = NULL THEN TypeError
    ELSE LET l == toStringUnguarded(n.leftChild)
             r == toStringUnguarded(n.rightChild)
         IN IF l = TypeError \/ r = TypeError THEN TypeError
            ELSE (IF n.grouped THEN <<"(">> ELSE <<>>)
                 \o l \o <<" ">>
                 \o (IF n.conjunction # ""
                     THEN <<toUpperCase(n.conjunction), " ">> ELSE <<>>)
                 \o r
                 \o (IF n.grouped THEN <<")">> ELSE <<>>)

toStringUnguarded(n) ==
    IF n.type = "Internal"
    THEN Internal_toStringUnguarded(n)
    ELSE Terminal_toString(n)

-----------------------------------------------------------------------------
(* FTSQuery *)

isStopWord(word) == word \in stopWords

\* group is true or undefined; grouped is only ever tested for truthiness.
addNode(r, n, conj, group) ==
    IF n # NULL
    THEN LET n1 == [n EXCEPT !.grouped = group]
         IN IF r # NULL THEN InternalNode(r, n1, conj) ELSE n1
    ELSE r

\* addNodeByString without the stop-word test.
addNodeByStringUnfiltered(r, term, form, exclude, conj) ==
    IF Len(term) > 0
    THEN addNode(r, TerminalNode(term, form, exclude), conj, FALSE)
    ELSE r

addNodeByString(r, term, form, exclude, conj) ==
    IF Len(term) > 0 /\ ~isStopWord(term)
    THEN addNode(r, TerminalNode(term, form, exclude), conj, FALSE)
    ELSE r

\* Returns [term, parser]: the extracted text and the parser it leaves.
\* extractBlockScan without the skip of quoted text.
RECURSIVE extractBlockScanThroughQuotes(_, _, _, _)
extractBlockScanThroughQuotes(p, depth, openChar, closeChar) ==
    IF EndOfText(p) THEN p
    ELSE LET ch == peek(p)
         IN IF ch = openChar
            THEN extractBlockScanThroughQuotes(moveAhead(p), depth + 1,
                                               openChar, closeChar)
            ELSE IF ch = closeChar
            THEN IF depth - 1 = 0 THEN p
                 ELSE extractBlockScanThroughQuotes(moveAhead(p), depth - 1,
                                                    openChar, closeChar)
            ELSE extractBlockScanThroughQuotes(moveAhead(p), depth,
                                               openChar, closeChar)

RECURSIVE extractBlockScan(_, _, _, _)
extractBlockScan(p, depth, openChar, closeChar) ==
    IF EndOfText(p) THEN p
    ELSE LET ch == peek(p)
         IN IF ch = openChar
            THEN extractBlockScan(moveAhead(p), depth + 1, openChar, closeChar)
            ELSE IF ch = closeChar
            THEN IF depth - 1 = 0 THEN p
                 ELSE extractBlockScan(moveAhead(p), depth - 1, openChar, closeChar)
            ELSE IF ch = "\"" \/ ch = "'"
            THEN extractBlockScan(moveAhead(skipWhile(moveAhead(p), {ch})),
                                  depth, openChar, closeChar)
            ELSE extractBlockScan(moveAhead(p), depth, openChar, closeChar)

extractBlock(p, openChar, closeChar) ==
    LET p1 == moveAhead(p)
        p2 == extractBlockScan(p1, 1, openChar, closeChar)
    IN [term |-> extract(p2, p1.Index, p2.Index), parser |-> p2]

\* isInvalidWithNear without the test of the form.
isInvalidWithNearAnyForm(n) == ~(n.type = "Terminal")

isInvalidWithNear(n) == ~(n.type = "Terminal") \/ n.termForm # "Literal"

\* isInvalidWithOr without the test of exclude.
isInvalidWithOrAbsentOnly(n) == n = NULL

isInvalidWithOr(n) == n = NULL \/ n.exclude

\* if (internalNode.conjunction === "Near") { ... }: the conjunction kept.
FixNear(conj, l, r) ==
    IF conj = "Near" /\ (isInvalidWithNear(l) \/ isInvalidWithNear(r))
    THEN "And"
    ELSE conj

\* else if (internalNode.conjunction === "Or") { ... }: the child kept.
FixOr(conj, child) ==
    IF conj = "Or" /\ isInvalidWithOr(child) THEN NULL ELSE child

\* Resolve, but a node whose right child alone was eliminated is kept.
ResolveKeepingParent(n, conj, l, r) ==
    IF l = NULL /\ r = NULL THEN NULL
    ELSE IF l = NULL THEN r
    ELSE IF r = NULL
    THEN [n EXCEPT !.conjunction = conj, !.leftChild = l, !.rightChild = NULL]
    ELSE LET excl == l.exclude /\ r.exclude
             swap == ~excl /\ l.exclude
         IN [n EXCEPT !.conjunction = conj,
                      !.exclude = excl,
                      !.leftChild = IF swap THEN r ELSE l,
                      !.rightChild = IF swap THEN l ELSE r]

\* Resolve without the swap of the children.
ResolveWithoutSwap(n, conj, l, r) ==
    IF l = NULL /\ r = NULL THEN NULL
    ELSE IF l = NULL THEN r
    ELSE IF r = NULL THEN l
    ELSE [n EXCEPT !.conjunction = conj,
                   !.exclude = l.exclude /\ r.exclude,
                   !.leftChild = l,
                   !.rightChild = r]

\* Resolve with a node excluded when either child is.
ResolveExcludeEither(n, conj, l, r) ==
    IF l = NULL /\ r = NULL THEN NULL
    ELSE IF l = NULL THEN r
    ELSE IF r = NULL THEN l
    ELSE LET excl == l.exclude \/ r.exclude
             swap == ~excl /\ l.exclude
         IN [n EXCEPT !.conjunction = conj,
                      !.exclude = excl,
                      !.leftChild = IF swap THEN r ELSE l,
                      !.rightChild = IF swap THEN l ELSE r]

\* Handle eliminated child expressions: n with its conjunction fixed and its
\* fixed children l and r.
Resolve(n, conj, l, r) ==
    IF l = NULL /\ r = NULL THEN NULL
    ELSE IF l = NULL THEN r
    ELSE IF r = NULL THEN l
    ELSE LET excl == l.exclude /\ r.exclude
             swap == ~excl /\ l.exclude
         IN [n EXCEPT !.conjunction = conj,
                      !.exclude = excl,
                      !.leftChild = IF swap THEN r ELSE l,
                      !.rightChild = IF swap THEN l ELSE r]

\* Eliminate without the test of isRoot.
EliminateGroupedOnly(n, isRoot) ==
    IF n = NULL THEN NULL
    ELSE IF n.grouped /\ n.exclude THEN NULL
    ELSE n

\* Eliminate expression group if it contains only exclude expressions.
Eliminate(n, isRoot) ==
    IF n = NULL THEN NULL
    ELSE IF (n.grouped \/ isRoot) /\ n.exclude THEN NULL
    ELSE n

RECURSIVE fixUpExpressionTree(_, _)
fixUpExpressionTree(n, isRoot) ==
    IF n = NULL THEN NULL
    ELSE IF n.type = "Internal"
    THEN LET l == fixUpExpressionTree(n.leftChild, FALSE)
             r == fixUpExpressionTree(n.rightChild, FALSE)
         IN Eliminate(Resolve(n, FixNear(n.conjunction, l, r),
                              FixOr(n.conjunction, l), FixOr(n.conjunction, r)),
                      isRoot)
    ELSE Eliminate(n, isRoot)

-----------------------------------------------------------------------------
(* parseNode: the state of one call is a record                             *)
(* [parser, conjunction, termExclude, termForm, resetState, root]           *)

RECURSIVE parseNode(_, _)

\* TermCase with the reset requested only when a node was added.
TermCaseResetOnAdd(s) ==
    LET p1 == parseWhile(s.parser, punctuation \cup whitespace)
        word == extract(p1, s.parser.Index, p1.Index)
        wild == peek(p1) = "*"
        term == IF wild THEN word \o <<peek(p1)>> ELSE word
        p2 == IF wild THEN moveAhead(p1) ELSE p1
        form == IF wild THEN "Literal" ELSE s.termForm
        s1 == [s EXCEPT !.parser = p2, !.termForm = form]
        r == addNodeByString(s.root, term, form, s.termExclude, s.conjunction)
    IN IF andRegex(term) THEN [s1 EXCEPT !.conjunction = "And"]
       ELSE IF orRegex(term) THEN [s1 EXCEPT !.conjunction = "Or"]
       ELSE IF nearRegex(term) THEN [s1 EXCEPT !.conjunction = "Near"]
       ELSE IF notRegex(term) THEN [s1 EXCEPT !.termExclude = TRUE]
       ELSE [s1 EXCEPT !.root = r, !.resetState = r # s.root]

\* ch is not punctuation: a word, an operator keyword or a wildcard term.
TermCase(s) ==
    LET p1 == parseWhile(s.parser, punctuation \cup whitespace)
        word == extract(p1, s.parser.Index, p1.Index)
        wild == peek(p1) = "*"
        term == IF wild THEN word \o <<peek(p1)>> ELSE word
        p2 == IF wild THEN moveAhead(p1) ELSE p1
        form == IF wild THEN "Literal" ELSE s.termForm
        s1 == [s EXCEPT !.parser = p2, !.termForm = form]
    IN IF andRegex(term) THEN [s1 EXCEPT !.conjunction = "And"]
       ELSE IF orRegex(term) THEN [s1 EXCEPT !.conjunction = "Or"]
       ELSE IF nearRegex(term) THEN [s1 EXCEPT !.conjunction = "Near"]
       ELSE IF notRegex(term) THEN [s1 EXCEPT !.termExclude = TRUE]
       ELSE [s1 EXCEPT !.root = addNodeByString(s.root, term, form,
                                                s.termExclude, s.conjunction),
                       !.resetState = TRUE]

\* case "\"": case "'":
QuoteCase(s, ch) ==
    LET p1 == moveAhead(s.parser)
        p2 == parseWhile(p1, {ch})
        term == extract(p2, p1.Index, p2.Index)
    IN [s EXCEPT !.termForm = "Literal",
                 !.parser = moveAhead(p2),
                 !.root = addNodeByString(s.root, trim(term), "Literal",
                                          s.termExclude, s.conjunction),
                 !.resetState = TRUE]

\* ParenCase with the pending exclude given to the block's node.
ParenCaseExcluding(s, defaultConjunction) ==
    LET b == extractBlock(s.parser, "(", ")")
        n == parseNode(b.term, defaultConjunction)
        n1 == IF n # NULL THEN [n EXCEPT !.exclude = s.termExclude] ELSE n
    IN [s EXCEPT !.parser = moveAhead(b.parser),
                 !.root = addNode(s.root, n1, s.conjunction, TRUE),
                 !.resetState = TRUE]

\* case "(":
ParenCase(s, defaultConjunction) ==
    LET b == extractBlock(s.parser, "(", ")")
        n == parseNode(b.term, defaultConjunction)
    IN [s EXCEPT !.parser = moveAhead(b.parser),
                 !.root = addNode(s.root, n, s.conjunction, TRUE),
                 !.resetState = TRUE]

\* case "<":
AngleCase(s) ==
    LET b == extractBlock(s.parser, "<", ">")
        n == parseNode(b.term, "Near")
    IN [s EXCEPT !.parser = moveAhead(b.parser),
                 !.root = addNode(s.root, n, s.conjunction, FALSE),
                 !.resetState = TRUE]

\* case "-": case "+": case "~": default:
ModifierCase(s, ch) ==
    LET s1 == [s EXCEPT !.parser = moveAhead(s.parser)]
    IN CASE ch = "-" -> [s1 EXCEPT !.termExclude = TRUE]
         [] ch = "+" -> [s1 EXCEPT !.termForm = "Literal"]
         [] ch = "~" -> [s1 EXCEPT !.termForm = "Thesaurus"]
         [] OTHER -> s1

\* if (resetState) { ... }
ResetModifiers(s, defaultConjunction) ==
    IF s.resetState
    THEN [s EXCEPT !.conjunction = defaultConjunction,
                   !.termForm = "Inflectional",
                   !.termExclude = FALSE,
                   !.resetState = FALSE]
    ELSE s

\* The start of a pass through the loop: the reset and skipWhitespace.
Prologue(s, defaultConjunction) ==
    LET s1 == ResetModifiers(s, defaultConjunction)
    IN [s1 EXCEPT !.parser = skipWhitespace(s1.parser)]

\* The branch a pass takes on the parser p that Prologue leaves.
Branch(p) ==
    LET ch == peek(p)
    IN IF EndOfText(p) THEN "break"
       ELSE IF ch \notin punctuation THEN "term"
       ELSE IF ch = "\"" \/ ch = "'" THEN "quote"
       ELSE IF ch \in {"(", "<", "-", "+", "~"} THEN ch
       ELSE "default"

\* One pass through the body of the while loop, entered with ~EndOfText.
LoopBody(s, defaultConjunction) ==
    LET s2 == Prologue(s, defaultConjunction)
        ch == peek(s2.parser)
        branch == Branch(s2.parser)
    IN CASE branch = "break" -> s2
         [] branch = "term" -> TermCase(s2)
         [] branch = "quote" -> QuoteCase(s2, ch)
         [] branch = "(" -> ParenCase(s2, defaultConjunction)
         [] branch = "<" -> AngleCase(s2)
         [] OTHER -> ModifierCase(s2, ch)

RECURSIVE Loop(_, _)
Loop(s, defaultConjunction) ==
    IF EndOfText(s.parser) THEN s
    ELSE Loop(LoopBody(s, defaultConjunction), defaultConjunction)

ParseState(text, defaultConjunction) ==
    [parser |-> ParsingHelper(text), conjunction |-> defaultConjunction,
     termExclude |-> FALSE, termForm |-> "Inflectional", resetState |-> TRUE,
     root |-> NULL]

parseNode(text, defaultConjunction) ==
    Loop(ParseState(text, defaultConjunction), defaultConjunction).root

-----------------------------------------------------------------------------
(* Inputs *)

abc == <<"a", "b", "c">>
def == <<"d", "e", "f">>
ghi == <<"g", "h", "i">>
the == <<"t", "h", "e">>
sp  == <<" ">>

\* The classes of word of StandardStopWords.StopWords: a lower-case word, a
\* capital letter, a punctuation character and two operator keywords.
StandardStopWords ==
    {the, <<"A">>, <<"$">>, <<"a", "n", "d">>, <<"o", "r">>}

\* Malformed input: unmatched quotes and brackets, stray punctuation.
MaxMalformed == 3

MalformedVocabulary ==
    {<<"a", "b">>, sp, <<"\"">>, <<"'">>, <<"(">>, <<")">>, <<"<">>, <<">">>,
     <<"-">>, <<"*">>, <<"o", "r">>, <<".">>}

\* Terms, operators and blocks: a term, a literal term, an excluded literal
\* term, two operator keywords, parentheses and angle brackets.
MaxOperators == 4

OperatorVocabulary ==
    {abc \o sp, <<"+">> \o ghi \o sp, <<"-", "+">> \o def \o sp,
     <<"o", "r", " ">>, <<"N", "e", "a", "r", " ">>,
     <<"(">>, <<")", " ">>, <<"<">>, <<">", " ">>}

\* One word and what fixes its form: +, ~, quotes and the wildcard.
MaxForms == 4

FormVocabulary == {abc, <<"+">>, <<"~">>, <<"*">>, <<"\"">>, <<"'">>}

\* Stop words separated by whitespace.
MaxStopWords == 4

StopWordVocabulary ==
    {the, <<" ", "A">>, <<" ", "$">>, <<"\t", "o", "r">>, <<"a", "n", "d", " ">>}

\* A stop word, quoted, prefixed or followed by the wildcard.
MaxStopForms == 3

StopFormVocabulary ==
    {the, <<"T", "h", "e">>, <<"\"">>, <<"'">>, <<"+">>, <<"~">>, <<"-">>,
     <<"*">>, sp}

\* Modifiers followed by tokens that add no node, then a term.
MaxPending == 3

PendingVocabulary ==
    {<<"-">>, <<"+">>, <<"o", "r", " ">>, <<"n", "o", "t", " ">>, the \o sp,
     <<"\"", "\"", " ">>, <<"(", ")", " ">>, <<".", " ">>, abc \o sp}

\* Delimiters and quotes around a word.
MaxBlocks == 4

BlockVocabulary == {<<"(">>, <<")">>, <<"\"">>, <<"'">>, <<"a", "b">>}

\* Whole queries.
MaxExamples == 1

NearExample == <<"<", "+">> \o abc \o <<" ", "+">> \o def \o <<">">>

NearChainExample ==
    <<"<", "+">> \o abc \o <<" ", "+">> \o def \o <<" ", "+">> \o ghi \o <<">">>

OrNotExample == abc \o <<" ", "o", "r", " ", "-">> \o def

NotOrNotExample == <<"-">> \o abc \o <<" ", "o", "r", " ", "-">> \o def

NearNotExample == abc \o <<" ", "n", "e", "a", "r", " ", "-">> \o def

QuotedNearNotExample ==
    <<"\"">> \o abc \o <<"\"", " ", "n", "e", "a", "r", " ", "-", "\"">>
    \o def \o <<"\"">>

NotExample == <<"-">> \o abc

NotNotExample == <<"-">> \o abc \o <<" ", "-">> \o def

NotGroupExample == abc \o <<" ", "(", "-">> \o def \o <<" ", "-">> \o ghi \o <<")">>

NotNotTermExample == <<"-">> \o abc \o <<" ", "-">> \o def \o sp \o ghi

NotTermExample == <<"-">> \o abc \o sp \o def

NestedBlockExample ==
    <<"(">> \o abc \o <<" ", "(">> \o def \o <<")", " ">> \o ghi \o <<")">>

NestedAngleExample ==
    <<"<">> \o abc \o <<" ", "<">> \o def \o <<">", " ">> \o ghi \o <<">", " ">>
    \o abc

QuotedCloseExample ==
    <<"(">> \o abc \o <<" ", "\"", ")", "\"", " ">> \o def \o <<")", " ">> \o ghi

OpenQuoteExample ==
    <<"(">> \o abc \o <<" ", "'">> \o def \o <<")", " ">> \o ghi

GroupExample ==
    abc \o <<" ", "(">> \o def \o <<" ", "o", "r", " ">> \o ghi \o <<")">>

AngleGroupExample ==
    abc \o <<" ", "<", "(">> \o def \o <<" ", "o", "r", " ">> \o ghi
    \o <<")", ">">>

CollapsedGroupExample ==
    abc \o <<" ", "(">> \o def \o <<" ", "o", "r", " ">> \o ghi
    \o <<" ", "(", "-">> \o abc \o <<")", ")">>

NotBlockExample ==
    abc \o <<" ", "-", "(">> \o def \o sp \o ghi \o <<")">>

OrNotLiteralBlockExample ==
    abc \o <<" ", "o", "r", " ", "n", "o", "t", " ", "+", "(">> \o def \o sp
    \o ghi \o <<")">>

ExampleVocabulary ==
    {NotBlockExample, OrNotLiteralBlockExample, GroupExample, AngleGroupExample, CollapsedGroupExample, NearExample, NearChainExample, OrNotExample, NotOrNotExample,
     NearNotExample, QuotedNearNotExample, NotExample, NotNotExample,
     NotGroupExample, NotNotTermExample, NotTermExample,
     NestedBlockExample, NestedAngleExample, QuotedCloseExample,
     OpenQuoteExample}

\* The fragments a caller writes a query of, and how many of them.
Fragments(v) ==
    CASE v = "malformed" -> MalformedVocabulary
      [] v = "operators" -> OperatorVocabulary
      [] v = "forms" -> FormVocabulary
      [] v = "stop words" -> StopWordVocabulary
      [] v = "stop forms" -> StopFormVocabulary
      [] v = "pending" -> PendingVocabulary
      [] v = "blocks" -> BlockVocabulary
      [] v = "examples" -> ExampleVocabulary

MaxTyped(v) ==
    CASE v = "malformed" -> MaxMalformed
      [] v = "operators" -> MaxOperators
      [] v = "forms" -> MaxForms
      [] v = "stop words" -> MaxStopWords
      [] v = "stop forms" -> MaxStopForms
      [] v = "pending" -> MaxPending
      [] v = "blocks" -> MaxBlocks
      [] v = "examples" -> MaxExamples

-----------------------------------------------------------------------------
(* The caller writes a query, then transform runs as a state machine *)

\* new FTSQuery(true), or new FTSQuery() with no stop word.
Init ==
    /\ \/ /\ stopWords = StandardStopWords
          /\ vocabulary \in {"malformed", "operators", "forms", "stop words",
                             "stop forms", "pending", "blocks", "examples"}
       \/ /\ stopWords = {}
          /\ vocabulary \in {"stop words", "stop forms"}
    /\ typed = 0
    /\ query = <<>>
    /\ pc = "input"
    /\ parser = ParsingHelper(<<>>)
    /\ conjunction = "And"
    /\ termExclude = FALSE
    /\ termForm = "Inflectional"
    /\ resetState = TRUE
    /\ root = NULL
    /\ node = NULL
    /\ result = <<>>

\* The caller extends the query by one fragment.
Type ==
    /\ pc = "input"
    /\ typed < MaxTyped(vocabulary)
    /\ \E w \in Fragments(vocabulary) : query' = query \o w
    /\ typed' = typed + 1
    /\ UNCHANGED <<stopWords, vocabulary, pc, parser, conjunction, termExclude,
                   termForm, resetState, root, node, result>>

\* transform(query) is called: parseNode(query, "And") starts.
Transform ==
    /\ pc = "input"
    /\ pc' = "parseNode"
    /\ parser' = ParsingHelper(query)
    /\ conjunction' = "And"
    /\ termExclude' = FALSE
    /\ termForm' = "Inflectional"
    /\ resetState' = TRUE
    /\ root' = NULL
    /\ UNCHANGED <<stopWords, vocabulary, typed, query, node, result>>

\* The outermost parseNode call's state.
Current ==
    [parser |-> parser, conjunction |-> conjunction, termExclude |-> termExclude,
     termForm |-> termForm, resetState |-> resetState, root |-> root]

\* The outermost call at the start of a pass, after the reset and
\* skipWhitespace.
Entered == Prologue(Current, "And")

InLoop == pc = "parseNode" /\ ~EndOfText(parser)

\* The pass leaves the outermost call in state s.
Becomes(s) ==
    /\ parser' = s.parser
    /\ conjunction' = s.conjunction
    /\ termExclude' = s.termExclude
    /\ termForm' = s.termForm
    /\ resetState' = s.resetState
    /\ root' = s.root
    /\ UNCHANGED <<stopWords, vocabulary, typed, query, pc, node, result>>

ParseTerm ==
    /\ InLoop
    /\ Branch(Entered.parser) = "term"
    /\ Becomes(TermCase(Entered))

ParseQuote ==
    /\ InLoop
    /\ Branch(Entered.parser) = "quote"
    /\ Becomes(QuoteCase(Entered, peek(Entered.parser)))

ParseParentheses ==
    /\ InLoop
    /\ Branch(Entered.parser) = "("
    /\ Becomes(ParenCase(Entered, "And"))

ParseAngleBrackets ==
    /\ InLoop
    /\ Branch(Entered.parser) = "<"
    /\ Becomes(AngleCase(Entered))

ParseExclude ==
    /\ InLoop
    /\ Branch(Entered.parser) = "-"
    /\ Becomes(ModifierCase(Entered, "-"))

ParseLiteral ==
    /\ InLoop
    /\ Branch(Entered.parser) = "+"
    /\ Becomes(ModifierCase(Entered, "+"))

ParseThesaurus ==
    /\ InLoop
    /\ Branch(Entered.parser) = "~"
    /\ Becomes(ModifierCase(Entered, "~"))

\* ParseIgnored without moveAhead.
ParseIgnoredStaying ==
    /\ InLoop
    /\ Branch(Entered.parser) = "default"
    /\ Becomes(Entered)

\* Any other punctuation character.
ParseIgnored ==
    /\ InLoop
    /\ Branch(Entered.parser) = "default"
    /\ Becomes(ModifierCase(Entered, peek(Entered.parser)))

\* Only whitespace is left: the loop breaks.
ParseTrailingWhitespace ==
    /\ InLoop
    /\ Branch(Entered.parser) = "break"
    /\ Becomes(Entered)

\* while (!parser.EndOfText) fails: return root.
ParseReturn ==
    /\ pc = "parseNode"
    /\ EndOfText(parser)
    /\ pc' = "fixUp"
    /\ UNCHANGED <<stopWords, vocabulary, typed, query, parser, conjunction, termExclude, termForm,
                   resetState, root, node, result>>

FixUp ==
    /\ pc = "fixUp"
    /\ node' = fixUpExpressionTree(root, TRUE)
    /\ pc' = "toString"
    /\ UNCHANGED <<stopWords, vocabulary, typed, query, parser, conjunction, termExclude, termForm,
                   resetState, root, result>>

Render ==
    /\ pc = "toString"
    /\ result' = IF node # NULL THEN toString(node) ELSE <<>>
    /\ pc' = "done"
    /\ UNCHANGED <<stopWords, vocabulary, typed, query, parser, conjunction, termExclude, termForm,
                   resetState, root, node>>

Next ==
    \/ Type
    \/ Transform
    \/ ParseTerm
    \/ ParseQuote
    \/ ParseParentheses
    \/ ParseAngleBrackets
    \/ ParseExclude
    \/ ParseLiteral
    \/ ParseThesaurus
    \/ ParseIgnored
    \/ ParseTrailingWhitespace
    \/ ParseReturn
    \/ FixUp
    \/ Render

Spec == Init /\ [][Next]_vars

-----------------------------------------------------------------------------
(* The shape of a tree *)

Forms == {"Inflectional", "Thesaurus", "Literal"}

Conjunctions == {"And", "Or", "Near"}

\* The nodes of the tree n, n included.
RECURSIVE Nodes(_)
Nodes(n) ==
    IF n = NULL THEN {}
    ELSE IF n.type = "Internal"
    THEN {n} \cup Nodes(n.leftChild) \cup Nodes(n.rightChild)
    ELSE {n}

Internals(n) == {m \in Nodes(n) : m.type = "Internal"}

Terminals(n) == {m \in Nodes(n) : m.type = "Terminal"}

-----------------------------------------------------------------------------
(* C1 *)

\* C1: transform never raises an error.  When transform has returned, every
\* Internal node of the tree it rendered has both children and a conjunction,
\* every Terminal has a non-empty term and a form, and neither definition of
\* InternalNode.toString throws: both render the tree to the same string.
C1_NoError ==
    pc = "done" =>
        /\ \A m \in Internals(node) :
              /\ m.leftChild # NULL
              /\ m.rightChild # NULL
              /\ m.conjunction \in Conjunctions
        /\ \A m \in Terminals(node) : m.term # <<>> /\ m.termForm \in Forms
        /\ result # TypeError
        /\ node # NULL => toStringUnguarded(node) = result

\* A malformed query has been transformed: ("ab, an unmatched parenthesis
\* and an unterminated quote, rendered as the one literal term it holds.
C1_Witness ==
    /\ pc = "done"
    /\ query = <<"(", "\"", "a", "b">>
    /\ result = <<"\"", "a", "b", "\"">>

-----------------------------------------------------------------------------
(* C2 *)

\* The length of the run of non-whitespace characters s starts with.
RECURSIVE RunLength(_)
RunLength(s) ==
    IF s = <<>> \/ Head(s) \in whitespace THEN 0 ELSE 1 + RunLength(Tail(s))

\* The words of s: its maximal runs of non-whitespace characters.
RECURSIVE WordsOf(_)
WordsOf(s) ==
    IF s = <<>> THEN {}
    ELSE IF Head(s) \in whitespace THEN WordsOf(Tail(s))
    ELSE {SubSeq(s, 1, RunLength(s))}
         \cup WordsOf(SubSeq(s, RunLength(s) + 1, Len(s)))

\* C2: a query that consists solely of stop words of the instance, separated
\* by whitespace, is transformed to the empty string.
C2_OnlyStopWords ==
    (pc = "done" /\ WordsOf(query) \subseteq stopWords) => result = <<>>

\* "the A $" has been transformed by an instance with the standard stop
\* words: three stop words, and the empty string.
C2_Witness ==
    /\ pc = "done"
    /\ stopWords = StandardStopWords
    /\ query = the \o <<" ", "A", " ", "$">>
    /\ WordsOf(query) = {the, <<"A">>, <<"$">>}
    /\ result = <<>>

-----------------------------------------------------------------------------
(* C3 *)

\* Up to three form modifiers, each + or ~.
FormPrefixes == UNION {[1..k -> {"+", "~"}] : k \in 0..3}

\* The form the modifiers mods leave for the term that follows them.
LastForm(mods) ==
    IF mods = <<>> THEN "Inflectional"
    ELSE IF mods[Len(mods)] = "+" THEN "Literal"
    ELSE "Thesaurus"

\* The rendering of the term t in the form f.
Expected(f, t) ==
    CASE f = "Inflectional" -> <<"FORMSOF(INFLECTIONAL, ">> \o t \o <<")">>
      [] f = "Thesaurus" -> <<"FORMSOF(THESAURUS, ">> \o t \o <<")">>
      [] f = "Literal" -> <<"\"">> \o t \o <<"\"">>

\* C3: a query holding the single word abc is rendered in the form its last
\* form modifier gives it: inflectional with none, FORMSOF(THESAURUS, abc)
\* after ~, "abc" after +; in double or single quotes it is rendered "abc" and
\* with a trailing wildcard "abc*", whatever the modifiers.
\* The code breaks it for single quotes: ' is not in punctuation, so parseNode
\* takes the term branch and case "'" is never reached.
C3_SingleWord ==
    pc = "done" =>
        \A mods \in FormPrefixes :
            /\ query = mods \o abc => result = Expected(LastForm(mods), abc)
            /\ query = mods \o abc \o <<"*">>
                  => result = Expected("Literal", abc \o <<"*">>)
            /\ \A q \in {"\"", "'"} :
                  query = mods \o <<q>> \o abc \o <<q>>
                      => result = Expected("Literal", abc)

-----------------------------------------------------------------------------
(* C4 *)

IsLiteralTerminal(n) == n.type = "Terminal" /\ n.termForm = "Literal"

\* C4: in the tree transform renders, both children of every Near node are
\* Terminal nodes of form Literal; <+abc +def> is rendered "abc" NEAR "def",
\* and of the NEAR chain <+abc +def +ghi> only the innermost NEAR is kept.
C4_NearOperands ==
    pc = "done" =>
        /\ \A m \in Internals(node) :
              m.conjunction = "Near" =>
                  IsLiteralTerminal(m.leftChild) /\ IsLiteralTerminal(m.rightChild)
        /\ query = NearExample =>
              result = <<"\"", "a", "b", "c", "\"", " ", "NEAR", " ",
                         "\"", "d", "e", "f", "\"">>
        /\ query = NearChainExample =>
              result = <<"\"", "a", "b", "c", "\"", " ", "NEAR", " ",
                         "\"", "d", "e", "f", "\"", " ", "AND", " ",
                         "\"", "g", "h", "i", "\"">>

\* <+abc +def +ghi> has been transformed: parsing made two Near nodes, and the
\* rendered tree keeps the inner one and has the outer one demoted to And.
C4_Witness ==
    /\ pc = "done"
    /\ query = NearChainExample
    /\ root.conjunction = "Near" /\ root.leftChild.conjunction = "Near"
    /\ node.conjunction = "And" /\ node.leftChild.conjunction = "Near"

-----------------------------------------------------------------------------
(* C5 *)

Inflectional(t) == <<"FORMSOF(INFLECTIONAL, ">> \o t \o <<")">>

\* C5: in the tree transform renders, no child of an Or node has exclude set;
\* "abc or -def" is rendered as abc alone and "-abc or -def" as "".
C5_OrOperands ==
    pc = "done" =>
        /\ \A m \in Internals(node) :
              m.conjunction = "Or" =>
                  ~m.leftChild.exclude /\ ~m.rightChild.exclude
        /\ query = OrNotExample => result = Inflectional(abc)
        /\ query = NotOrNotExample => result = <<>>

\* "abc or -def" has been transformed: parsing made an Or node whose right
\* child is excluded, and the node collapsed to its left child.
C5_Witness ==
    /\ pc = "done"
    /\ query = OrNotExample
    /\ root.conjunction = "Or" /\ root.rightChild.exclude
    /\ node = root.leftChild

-----------------------------------------------------------------------------
(* C6 *)

\* C6: no Near node of the tree transform renders has an excluded child
\* (term1 NEAR NOT term2 is changed to AND), whatever the form of the terms.
\* The code breaks it when both terms are Literal: isInvalidWithNear does not
\* look at exclude.
C6_NearNot ==
    pc = "done" =>
        \A m \in Internals(node) :
            m.conjunction = "Near" =>
                ~m.leftChild.exclude /\ ~m.rightChild.exclude

-----------------------------------------------------------------------------
(* C7 *)

-----------------------------------------------------------------------------
(* C8 *)

\* The leftmost Terminal of the tree n.
RECURSIVE Leftmost(_)
Leftmost(n) == IF n.type = "Internal" THEN Leftmost(n.leftChild) ELSE n

\* C8: in the tree transform renders, every Internal node is an exclude
\* expression exactly when both its children are, and its left child is one
\* only if its right child is one too; so the leftmost Terminal is not
\* excluded, and "-abc def" is rendered with def first.
C8_NegationOnTheRight ==
    pc = "done" =>
        /\ \A m \in Internals(node) :
              /\ m.exclude = (m.leftChild.exclude /\ m.rightChild.exclude)
              /\ m.leftChild.exclude => m.rightChild.exclude
        /\ node # NULL => ~Leftmost(node).exclude
        /\ query = NotTermExample =>
              result = Inflectional(def) \o <<" ", "AND", " ", "NOT ">>
                       \o Inflectional(abc)

\* "-abc def" has been transformed: the excluded abc was parsed on the left
\* and is rendered on the right.
C8_Witness ==
    /\ pc = "done"
    /\ query = NotTermExample
    /\ root.leftChild.exclude /\ ~root.rightChild.exclude
    /\ node.leftChild = root.rightChild /\ node.rightChild = root.leftChild

-----------------------------------------------------------------------------
(* C9 *)

Defaults ==
    [conjunction |-> "And", termExclude |-> FALSE, termForm |-> "Inflectional"]

\* The modifiers the next pass of the outermost call starts with.
Pending ==
    IF resetState THEN Defaults
    ELSE [conjunction |-> conjunction, termExclude |-> termExclude,
          termForm |-> termForm]

\* The word the pass is about to read, with its trailing wildcard.
NextTerm ==
    LET p1 == parseWhile(Entered.parser, punctuation \cup whitespace)
        word == extract(p1, Entered.parser.Index, p1.Index)
    IN IF peek(p1) = "*" THEN word \o <<"*">> ELSE word

IsOperator(t) == andRegex(t) \/ orRegex(t) \/ nearRegex(t) \/ notRegex(t)

\* A pass of the outermost call's loop.
Pass == pc = "parseNode" /\ pc' = "parseNode"

\* C9 as stated: a pending exclude or form survives a pass that adds no node
\* to the tree, and a pass that adds a node resets the modifiers.
C9_PersistUntilEmitted ==
    [][Pass =>
          /\ root' = root =>
                /\ Pending.termExclude => Pending'.termExclude
                /\ Pending.termForm # "Inflectional" =>
                      Pending'.termForm # "Inflectional"
          /\ root' # root => Pending' = Defaults]_vars

\* C9 as the code has it: the modifiers are reset after every word that is not
\* an operator, every quoted string and every group, whether or not it added
\* a node; an operator word or prefix sets its own modifier and keeps the
\* others, and ignored punctuation keeps them all.
C9_ResetAfterToken ==
    [][Pass =>
          LET b == Branch(Entered.parser)
          IN /\ (b \in {"quote", "(", "<"} \/ (b = "term" /\ ~IsOperator(NextTerm)))
                    => Pending' = Defaults
             /\ b \in {"default", "break"} => Pending' = Pending
             /\ b = "-" => Pending' = [Pending EXCEPT !.termExclude = TRUE]
             /\ b = "+" => Pending' = [Pending EXCEPT !.termForm = "Literal"]
             /\ b = "~" => Pending' = [Pending EXCEPT !.termForm = "Thesaurus"]
             /\ (b = "term" /\ andRegex(NextTerm))
                    => Pending' = [Pending EXCEPT !.conjunction = "And"]
             /\ (b = "term" /\ orRegex(NextTerm))
                    => Pending' = [Pending EXCEPT !.conjunction = "Or"]
             /\ (b = "term" /\ nearRegex(NextTerm))
                    => Pending' = [Pending EXCEPT !.conjunction = "Near"]
             /\ (b = "term" /\ notRegex(NextTerm))
                    => Pending' = [Pending EXCEPT !.termExclude = TRUE]]_vars

\* "-the abc " is being parsed: the exclude was pending, the stop word has
\* been read and dropped, and the reset is requested before abc is read.
C9_Witness ==
    /\ pc = "parseNode"
    /\ query = <<"-">> \o the \o sp \o abc \o sp
    /\ parser.Index = 4
    /\ termExclude /\ resetState /\ root = NULL

-----------------------------------------------------------------------------
(* C10 *)

\* The stop word "the" bare, quoted, prefixed and with the wildcard, and the
\* empty and whitespace-only quoted strings.
StopForms ==
    {the,
     <<"\"">> \o the \o <<"\"">>, <<"'">> \o the \o <<"'">>,
     <<"+">> \o the, <<"~">> \o the, <<"-">> \o the,
     the \o <<"*">>,
     <<"\"", "\"">>, <<"\"", " ", "\"">>, <<"'", "'">>, <<"'", " ", "'">>}

\* C10: a stop word adds no Terminal to the tree, whether it is written bare,
\* in double or single quotes, after "+", "~" or "-", or before "*", and
\* neither does an empty or whitespace-only quoted string; the match is
\* case-sensitive, so "The" is kept.  The code breaks it for single quotes and
\* for the wildcard.
C10_StopWordForms ==
    (pc = "done" /\ the \in stopWords) =>
        /\ query \in StopForms => root = NULL
        /\ query = <<"T", "h", "e">> => root # NULL

-----------------------------------------------------------------------------
(* C11 *)

quotes == {"\"", "'"}

\* The least position of text at or after k that holds ch, Len(text) + 1 if
\* there is none.  Positions are counted from 1.
NextAt(text, k, ch) ==
    IF \E j \in k..Len(text) : text[j] = ch
    THEN CHOOSE j \in k..Len(text) :
             text[j] = ch /\ \A i \in k..(j - 1) : text[i] # ch
    ELSE Len(text) + 1

\* The positions of text at or after k that are in a quoted span, the quote
\* characters included; a span without its closing quote runs to the end.
RECURSIVE QuotedFrom(_, _)
QuotedFrom(text, k) ==
    IF k > Len(text) THEN {}
    ELSE IF text[k] \in quotes
    THEN LET c == NextAt(text, k + 1, text[k])
         IN (k..Min(c, Len(text))) \cup QuotedFrom(text, c + 1)
    ELSE QuotedFrom(text, k + 1)

\* The nesting depth at position j of a block whose content starts at start.
DepthAt(text, start, j, openChar, closeChar) ==
    LET plain == (start..(j - 1)) \ QuotedFrom(text, start)
    IN 1 + Cardinality({k \in plain : text[k] = openChar})
         - Cardinality({k \in plain : text[k] = closeChar})

\* The position of the closing delimiter that matches the opening delimiter
\* before start, Len(text) + 1 if there is none.
MatchingClose(text, start, openChar, closeChar) ==
    LET closes == {j \in (start..Len(text)) \ QuotedFrom(text, start) :
                      /\ text[j] = closeChar
                      /\ DepthAt(text, start, j, openChar, closeChar) = 1}
    IN IF closes = {} THEN Len(text) + 1
       ELSE CHOOSE j \in closes : \A i \in closes : j <= i

closing == [c \in {"(", "<"} |-> IF c = "(" THEN ")" ELSE ">"]

\* C11: when a pass of parseNode calls extractBlock on an opening delimiter,
\* the block returned is the text between that delimiter and its matching
\* closing delimiter, delimiters in quoted spans not counted, and the cursor
\* is left on the closing delimiter; without one the block is the rest of the
\* text and the cursor is at the end.  The pass then moves one past it.
C11_ExtractBlock ==
    [][(Pass /\ Branch(Entered.parser) \in {"(", "<"}) =>
          LET p == Entered.parser
              openChar == peek(p)
              b == extractBlock(p, openChar, closing[openChar])
              m == MatchingClose(p.Text, p.Index + 2, openChar, closing[openChar])
          IN /\ b.term = SubSeq(p.Text, p.Index + 2, m - 1)
             /\ b.parser.Index = m - 1
             /\ b.parser.Text = p.Text
             /\ m <= Len(p.Text) => peek(b.parser) = closing[openChar]
             /\ m > Len(p.Text) => EndOfText(b.parser)
             /\ parser'.Index = Min(m, Len(p.Text))]_vars

\* The block of "(abc (def) ghi)" has been read as one group: the cursor is
\* past the last ")" and the tree is the grouped abc AND def AND ghi.
C11_Witness ==
    /\ pc = "parseNode"
    /\ query = NestedBlockExample
    /\ parser.Index = Len(query)
    /\ root = [parseNode(abc \o <<" ", "(">> \o def \o <<")", " ">> \o ghi, "And")
                  EXCEPT !.grouped = TRUE]
    /\ root.leftChild.rightChild.term = def

-----------------------------------------------------------------------------
(* C12 *)

\* Every pass of the loop of a parseNode call in state s, and of the calls it
\* makes for blocks, moves the cursor forward unless it breaks at the end of
\* the text, keeps it within the text, and gives a block's call a shorter
\* text.
RECURSIVE LoopAdvances(_, _)
LoopAdvances(s, defaultConjunction) ==
    IF EndOfText(s.parser) THEN TRUE
    ELSE LET e == Prologue(s, defaultConjunction)
             ch == peek(e.parser)
             t == LoopBody(s, defaultConjunction)
         IN /\ Branch(e.parser) # "break" => t.parser.Index > s.parser.Index
            /\ t.parser.Index <= Len(t.parser.Text)
            /\ Branch(e.parser) \in {"(", "<"} =>
                  LET b == extractBlock(e.parser, ch, closing[ch])
                      d == IF ch = "(" THEN defaultConjunction ELSE "Near"
                  IN /\ Len(b.term) < Len(s.parser.Text)
                     /\ LoopAdvances(ParseState(b.term, d), d)
            /\ LoopAdvances(t, defaultConjunction)

\* C12: every pass of parseNode's loop that does not break at the end of the
\* text moves the cursor forward, the cursor never passes the end of the text,
\* and the call made for a block gets a text shorter than its caller's, which
\* it parses under the same three conditions.
C12_Progress ==
    [][Pass =>
          /\ Branch(Entered.parser) # "break" => parser'.Index > parser.Index
          /\ parser'.Index <= Len(parser'.Text)
          /\ parser'.Text = parser.Text
          /\ Branch(Entered.parser) \in {"(", "<"} =>
                LET ch == peek(Entered.parser)
                    b == extractBlock(Entered.parser, ch, closing[ch])
                    d == IF ch = "(" THEN "And" ELSE "Near"
                IN /\ Len(b.term) < Len(parser.Text)
                   /\ LoopAdvances(ParseState(b.term, d), d)]_vars

\* "(abc ")" def) ghi" has been parsed to the end: a block with a quoted
\* string in it, then a word.
C12_Witness ==
    /\ pc = "parseNode"
    /\ query = QuotedCloseExample
    /\ EndOfText(parser)
    /\ root.leftChild.grouped
    /\ root.rightChild.term = ghi

-----------------------------------------------------------------------------
(* C13 *)

Terms(n) == {t.term : t \in Terminals(n)}

\* abc AND (def OR ghi)
GroupRendered ==
    Inflectional(abc) \o <<" ", "AND", " ", "(">> \o Inflectional(def)
    \o <<" ", "OR", " ">> \o Inflectional(ghi) \o <<")">>

\* C13: a parenthesized block of which two or more terms are rendered is
\* rendered in parentheses: every grouped node of the parse tree that
\* fixUpExpressionTree leaves with two or more terms has a grouped node with
\* those terms in the rendered tree, and "abc (def or ghi)",
\* "abc <(def or ghi)>" and "abc (def or ghi (-abc))" are all rendered
\* abc AND (def OR ghi).  The code breaks it for the last two.
C13_GroupsKept ==
    pc = "done" =>
        /\ \A g \in Internals(root) :
              LET f == fixUpExpressionTree(g, FALSE)
              IN (g.grouped /\ f # NULL /\ f.type = "Internal") =>
                    \E m \in Internals(node) :
                        m.grouped /\ Terms(m) = Terms(f)
        /\ query \in {GroupExample, AngleGroupExample, CollapsedGroupExample}
              => result = GroupRendered

-----------------------------------------------------------------------------
(* C14 *)

\* The terms and forms of the Terminals of n that are not excluded.
Positive(n) ==
    {[term |-> t.term, termForm |-> t.termForm] :
         t \in {u \in Terminals(n) : ~u.exclude}}

\* The number of Terminals of n that are not excluded.
RECURSIVE PositiveCount(_)
PositiveCount(n) ==
    IF n = NULL THEN 0
    ELSE IF n.type = "Internal"
    THEN PositiveCount(n.leftChild) + PositiveCount(n.rightChild)
    ELSE IF n.exclude THEN 0 ELSE 1

\* C14: the tree transform renders has every Terminal of the parse tree that
\* is not excluded, as many times; each of its Internal nodes is excluded
\* exactly when all the Terminals under it are; and the result is "" exactly
\* when the parse tree has no Terminal that is not excluded.
C14_PositiveTermsKept ==
    pc = "done" =>
        /\ Positive(node) = Positive(root)
        /\ PositiveCount(node) = PositiveCount(root)
        /\ \A m \in Internals(node) :
              m.exclude <=> \A t \in Terminals(m) : t.exclude
        /\ result = <<>> <=> PositiveCount(root) = 0

\* "abc (def or ghi (-abc))" has been transformed: the group of the excluded
\* abc was eliminated, and the three terms that are not excluded are rendered.
C14_Witness ==
    /\ pc = "done"
    /\ query = CollapsedGroupExample
    /\ Cardinality(Terminals(root)) = 4
    /\ Cardinality(Terminals(node)) = 3
    /\ PositiveCount(node) = 3
    /\ result # <<>>

-----------------------------------------------------------------------------
(* C15 *)

\* The outermost call at the start of a pass, had no exclude and no form been
\* pending.
EnteredPlain ==
    [Entered EXCEPT !.termExclude = FALSE, !.termForm = "Inflectional"]

\* C15: a pass that reads a block builds the same tree whether or not an
\* exclude or a form is pending: the block's subtree is the one parseNode
\* makes of the block's text, joined with the pending conjunction, and the
\* modifiers are reset after it.  "abc -(def ghi)" is rendered as
\* "abc (def ghi)" is, and "abc or not +(def ghi)" as abc OR (def AND ghi).
C15_BlockIgnoresModifiers ==
    /\ [][(Pass /\ Branch(Entered.parser) \in {"(", "<"}) =>
             LET ch == peek(Entered.parser)
                 b == extractBlock(Entered.parser, ch, closing[ch])
                 plain == IF ch = "(" THEN ParenCase(EnteredPlain, "And")
                          ELSE AngleCase(EnteredPlain)
                 sub == IF ch = "(" THEN parseNode(b.term, "And")
                        ELSE parseNode(b.term, "Near")
             IN /\ root' = plain.root
                /\ root' = addNode(root, sub, Entered.conjunction, ch = "(")
                /\ Pending' = Defaults]_vars
    /\ [](pc = "done" =>
             /\ query = NotBlockExample =>
                   result = toString(fixUpExpressionTree(
                                parseNode(abc \o <<" ", "(">> \o def \o sp \o ghi
                                          \o <<")">>, "And"), TRUE))
             /\ query = NotBlockExample =>
                   result = Inflectional(abc) \o <<" ", "AND", " ", "(">>
                            \o Inflectional(def) \o <<" ", "AND", " ">>
                            \o Inflectional(ghi) \o <<")">>
             /\ query = OrNotLiteralBlockExample =>
                   result = Inflectional(abc) \o <<" ", "OR", " ", "(">>
                            \o Inflectional(def) \o <<" ", "AND", " ">>
                            \o Inflectional(ghi) \o <<")">>)

\* "abc -(def ghi)" has been parsed: the exclude was pending when the block
\* was read, the block's node is grouped and nothing in it is excluded, and
\* the reset is requested.
C15_Witness ==
    /\ pc = "parseNode"
    /\ query = NotBlockExample
    /\ EndOfText(parser)
    /\ termExclude /\ resetState
    /\ root.rightChild.grouped
    /\ \A m \in Nodes(root.rightChild) : ~m.exclude

=============================================================================
